---- MODULE Spec2Model ----
(***************************************************************************)
(* Model of the forte crate: pitch classes, pitch-class sets, normal form, *)
(* prime form, transposition and inversion.                                *)
(*                                                                         *)
(* A PitchClassSet is a sequence of PitchClass (the struct's one field).   *)
(* A u32 is kept at its width as two 16-bit limbs [hi, lo]; pitch          *)
(* integers, intervals and interval scans (all below 12 * length) are      *)
(* plain naturals.  An i32 is a plain integer within -2^31 .. 2^31-1.      *)
(***************************************************************************)
EXTENDS Integers, Sequences, FiniteSets, TLC

\* Longest pitch-class set a caller constructs.
MaxLen == 3

\* Number of spellings (a prefix of InputPalette) a caller builds sets from.
NumSpellings == 6

\* Largest small transposition / inversion level a caller passes.
MaxLevel == 12

----------------------------------------------------------------------------
(* pitch_class.rs *)

\* The enum's variants in declaration order; derive(Ord) compares by position.
PitchClassOrder ==
    << "Cf", "C", "Cs", "Css",
       "Dff", "Df", "D", "Ds", "Dss",
       "Eff", "Ef", "E", "Es",
       "Ff", "F", "Fs", "Fss",
       "Gff", "Gf", "G", "Gs", "Gss",
       "Aff", "Af", "A", "As", "Ass",
       "Bff", "Bf", "B", "Bs" >>

PitchClass == { PitchClassOrder[i] : i \in 1..Len(PitchClassOrder) }

\* Position of a variant in the declaration order (its discriminant).
Discriminant ==
    [ pc \in PitchClass |->
        CHOOSE i \in 1..Len(PitchClassOrder) : PitchClassOrder[i] = pc ]

\* impl From<PitchClass> for u32
to_u32(pc) ==
    CASE pc \in {"Bs", "C", "Dff"}  -> 0
      [] pc \in {"Cs", "Df"}        -> 1
      [] pc \in {"Css", "D", "Eff"} -> 2
      [] pc \in {"Ds", "Ef"}        -> 3
      [] pc \in {"Dss", "E", "Ff"}  -> 4
      [] pc \in {"Es", "F", "Gff"}  -> 5
      [] pc \in {"Fs", "Gf"}        -> 6
      [] pc \in {"Fss", "G", "Aff"} -> 7
      [] pc \in {"Gs", "Af"}        -> 8
      [] pc \in {"Gss", "A", "Bff"} -> 9
      [] pc \in {"As", "Bf"}        -> 10
      [] pc \in {"Ass", "B", "Cf"}  -> 11

\* A u32 as two 16-bit limbs.
U32(h, l) == [hi |-> h, lo |-> l]

\* A small natural as a u32.
U32Of(n) == U32(n \div 65536, n % 65536)

\* u32::rem_euclid(12): 65536 = 4 (mod 12).
U32RemEuclid12(v) == (v.hi * 4 + v.lo) % 12

\* u32 addition: the wrapped sum and whether it overflowed.
U32Add(a, b) ==
    LET lo    == a.lo + b.lo
        carry == lo \div 65536
        hi    == a.hi + b.hi + carry
    IN  [overflow |-> hi >= 65536, val |-> U32(hi % 65536, lo % 65536)]

\* `as i32` on a u32: the same 32 bits read as two's complement.
AsI32(v) ==
    IF v.hi >= 32768 THEN (v.hi - 65536) * 65536 + v.lo
                     ELSE v.hi * 65536 + v.lo

\* i32 subtraction of a pitch integer p (0..11): wrapped difference, overflow.
I32Sub(a, p) ==
    IF a < (-2147483647 - 1) + p
    THEN [overflow |-> TRUE,  val |-> 2147483647 - ((p - 1) - (a + 2147483647 + 1))]
    ELSE [overflow |-> FALSE, val |-> a - p]

\* i32 `%` by 12: the remainder truncated toward zero (the sign of a).
I32Rem12(a) ==
    IF a >= 0 THEN a % 12 ELSE 0 - ((((0 - (a + 1)) % 12) + 1) % 12)

\* i32::rem_euclid(12): the least non-negative remainder.
I32RemEuclid12(a) == a % 12

\* `as u32` on an i32: the same 32 bits read unsigned.
AsU32(a) ==
    IF a >= 0 THEN U32(a \div 65536, a % 65536)
    ELSE U32(65535 - ((-(a + 1)) \div 65536), 65535 - ((-(a + 1)) % 65536))

\* The match without its arm for 11: that residue falls to the panic arm.
from_u32_without_last_arm(value) ==
    LET r == U32RemEuclid12(value)
    IN  CASE r = 0  -> "C"
          [] r = 1  -> "Cs"
          [] r = 2  -> "D"
          [] r = 3  -> "Ef"
          [] r = 4  -> "E"
          [] r = 5  -> "F"
          [] r = 6  -> "Fs"
          [] r = 7  -> "G"
          [] r = 8  -> "Af"
          [] r = 9  -> "A"
          [] r = 10 -> "Bf"
          [] OTHER  -> "panic"

\* impl From<u32> for PitchClass; the last arm is the panic.
from_u32(value) ==
    LET r == U32RemEuclid12(value)
    IN  CASE r = 0  -> "C"
          [] r = 1  -> "Cs"
          [] r = 2  -> "D"
          [] r = 3  -> "Ef"
          [] r = 4  -> "E"
          [] r = 5  -> "F"
          [] r = 6  -> "Fs"
          [] r = 7  -> "G"
          [] r = 8  -> "Af"
          [] r = 9  -> "A"
          [] r = 10 -> "Bf"
          [] r = 11 -> "B"
          [] OTHER  -> "panic"

----------------------------------------------------------------------------
(* Results: a value, or a panic. *)

Ok(v) == [ok |-> TRUE, val |-> v]
Panicked == [ok |-> FALSE, val |-> << >>]

\* Pitch integers of a set, element by element.
Integers_of(set) == [ i \in 1..Len(set) |-> to_u32(set[i]) ]

Reverse(s) == [ i \in 1..Len(s) |-> s[Len(s) + 1 - i] ]

----------------------------------------------------------------------------
(* Orderings the derives give: Vec compares lexicographically. *)

RECURSIVE VecLess(_, _)
VecLess(a, b) ==
    IF a = << >> THEN b # << >>
    ELSE IF b = << >> THEN FALSE
    ELSE IF Head(a) < Head(b) THEN TRUE
    ELSE IF Head(a) > Head(b) THEN FALSE
    ELSE VecLess(Tail(a), Tail(b))

\* derive(Ord) on PitchClassSet: Vec<PitchClass> by discriminant.
PitchClassSetLess(a, b) ==
    VecLess([ i \in 1..Len(a) |-> Discriminant[a[i]] ],
            [ i \in 1..Len(b) |-> Discriminant[b[i]] ])

----------------------------------------------------------------------------
(* utils.rs *)

get_interval_between(a, b) ==
    IF b >= a THEN b - a ELSE (b + 12) - a

find_interval(pair) == get_interval_between(to_u32(pair[1]), to_u32(pair[2]))

\* set.windows(2).map(find_interval).collect(); no windows below two elements.
intervals(set) ==
    IF Len(set) < 2 THEN << >>
    ELSE [ i \in 1..(Len(set) - 1) |-> find_interval(<< set[i], set[i + 1] >>) ]

----------------------------------------------------------------------------
(* normal_form.rs *)

\* first().unwrap() / last().unwrap() panic on an empty set.
total_span(set) ==
    IF set = << >> THEN Panicked
    ELSE Ok(get_interval_between(to_u32(set[1]), to_u32(set[Len(set)])))

\* Internal::new
Internal_new(set) ==
    [set |-> set, intervals |-> intervals(set), total_span |-> total_span(set).val]

\* derive(Ord) on Internal: set, then intervals, then total_span.
InternalLess(x, y) ==
    \/ PitchClassSetLess(x.set, y.set)
    \/ /\ x.set = y.set
       /\ \/ VecLess(x.intervals, y.intervals)
          \/ x.intervals = y.intervals /\ x.total_span < y.total_span

\* Insert pc into an ascending sequence, by discriminant.
RECURSIVE InsertPitchClass(_, _)
InsertPitchClass(pc, sorted) ==
    IF sorted = << >> THEN << pc >>
    ELSE IF Discriminant[pc] <= Discriminant[Head(sorted)] THEN << pc >> \o sorted
    ELSE << Head(sorted) >> \o InsertPitchClass(pc, Tail(sorted))

\* A stable sort by pitch integer, as sort_by_key(to_u32) would give:
\* spellings of one pitch keep the order they came in.
RECURSIVE sort_by_pitch_integer(_)
sort_by_pitch_integer(set) ==
    LET RECURSIVE insert(_, _)
        insert(pc, sorted) ==
            IF sorted = << >> THEN << pc >>
            ELSE IF to_u32(pc) <= to_u32(Head(sorted)) THEN << pc >> \o sorted
            ELSE << Head(sorted) >> \o insert(pc, Tail(sorted))
    IN  IF set = << >> THEN << >>
        ELSE insert(Head(set), sort_by_pitch_integer(Tail(set)))

\* The list as the caller gave it, the sort left out.
left_unsorted(set) == set

\* set.sort_unstable(): ascending by the derived Ord of PitchClass.
RECURSIVE sort_unstable(_)
sort_unstable(set) ==
    IF set = << >> THEN << >>
    ELSE InsertPitchClass(Head(set), sort_unstable(Tail(set)))

\* rotated.rotate_right(rotation): element i moves to (i + rotation) mod len.
create_rotation(set, rotation) ==
    [ j \in 1..Len(set) |-> set[((j - 1 - rotation) % Len(set)) + 1] ]

create_interval_scan(ivs) ==
    LET RECURSIVE scan(_, _)
        scan(acc, rest) ==
            IF rest = << >> THEN << >>
            ELSE << acc + Head(rest) >> \o scan(acc + Head(rest), Tail(rest))
    IN  scan(0, ivs)

set_with_interval_scan(internal, is_reversed) ==
    LET ivs == IF is_reversed THEN Reverse(internal.intervals) ELSE internal.intervals
    IN  [scan |-> create_interval_scan(ivs), is_reversed |-> is_reversed, set |-> internal]

\* Tuple order on (Vec<u32>, bool, &Internal): false sorts before true.
PossibilityLess(x, y) ==
    \/ VecLess(x.scan, y.scan)
    \/ /\ x.scan = y.scan
       /\ \/ ~x.is_reversed /\ y.is_reversed
          \/ x.is_reversed = y.is_reversed /\ InternalLess(x.set, y.set)

RECURSIVE InsertPossibility(_, _)
InsertPossibility(x, sorted) ==
    IF sorted = << >> THEN << x >>
    ELSE IF ~PossibilityLess(Head(sorted), x) THEN << x >> \o sorted
    ELSE << Head(sorted) >> \o InsertPossibility(x, Tail(sorted))

\* all_interval_possibilities.sort()
RECURSIVE sort_possibilities(_)
sort_possibilities(ps) ==
    IF ps = << >> THEN << >>
    ELSE InsertPossibility(Head(ps), sort_possibilities(Tail(ps)))

\* The two pushes per candidate, in candidate order.
RECURSIVE all_interval_possibilities(_)
all_interval_possibilities(sets) ==
    IF sets = << >> THEN << >>
    ELSE << set_with_interval_scan(Head(sets), FALSE),
            set_with_interval_scan(Head(sets), TRUE) >>
         \o all_interval_possibilities(Tail(sets))

\* The first possibility pushed, the list left as it was built.
find_first_pushed_candidate(sets) ==
    all_interval_possibilities(sets)[1].set

find_best_packed_candidate(sets) ==
    sort_possibilities(all_interval_possibilities(sets))[1].set

find_normal_form(candidates) ==
    IF Len(candidates) = 1 THEN candidates[1]
    ELSE find_best_packed_candidate(candidates)

\* (1..=set.len()).map(|i| Internal::new(create_rotation(&set, i)))
rotations_of(sorted) ==
    [ i \in 1..Len(sorted) |-> Internal_new(create_rotation(sorted, i)) ]

\* rotations.iter().map(|r| r.total_span).min()
min_span_of(rotations) ==
    CHOOSE m \in { rotations[i].total_span : i \in 1..Len(rotations) } :
        \A i \in 1..Len(rotations) : m <= rotations[i].total_span

rotations_with_min_span(rotations) ==
    SelectSeq(rotations, LAMBDA r : r.total_span = min_span_of(rotations))

\* normal_form::from; min().unwrap() panics when there are no rotations.
normal_form_from(set) ==
    LET sorted    == sort_unstable(set)
        rotations == rotations_of(sorted)
    IN  IF rotations = << >> THEN Panicked
        ELSE Ok(find_normal_form(rotations_with_min_span(rotations)).set)

----------------------------------------------------------------------------
(* prime_form.rs *)

\* std::cmp::min: the second argument only when it is strictly less.
min_vec(a, b) == IF VecLess(b, a) THEN b ELSE a

\* The scan of the chosen intervals alone, no leading 0 inserted.
prime_form_without_insert(set) ==
    LET nf == normal_form_from(set)
    IN  IF ~nf.ok THEN Panicked
        ELSE LET ivs      == intervals(nf.val)
                 reversed == Reverse(ivs)
             IN  Ok(create_interval_scan(min_vec(ivs, reversed)))

prime_form_from(set) ==
    LET nf == normal_form_from(set)
    IN  IF ~nf.ok THEN Panicked
        ELSE LET ivs         == intervals(nf.val)
                 reversed    == Reverse(ivs)
                 left_packed == << 0 >> \o min_vec(ivs, reversed)
             IN  Ok(create_interval_scan(left_packed))

----------------------------------------------------------------------------
(* transposition.rs, inversion.rs *)

\* transposition::by.  `to_u32() + level` is a u32 addition: with overflow
\* checks (a debug build) it panics, without them (a release build) it wraps.
transposition_by(set, level, overflow_checks) ==
    LET sums == [ i \in 1..Len(set) |-> U32Add(U32Of(to_u32(set[i])), level) ]
    IN  IF overflow_checks /\ \E i \in 1..Len(set) : sums[i].overflow
        THEN Panicked
        ELSE Ok([ i \in 1..Len(set) |->
                    from_u32(U32Of(U32RemEuclid12(sums[i].val))) ])

\* inversion::by.  `level as i32 - to_u32() as i32` is an i32 subtraction,
\* mapped in input order and collected in reverse.
inversion_by(set, level, overflow_checks) ==
    LET diffs  == [ i \in 1..Len(set) |-> I32Sub(AsI32(level), to_u32(set[i])) ]
        mapped == [ i \in 1..Len(set) |->
                      from_u32(AsU32(I32RemEuclid12(diffs[i].val))) ]
    IN  IF overflow_checks /\ \E i \in 1..Len(set) : diffs[i].overflow
        THEN Panicked
        ELSE Ok(Reverse(mapped))

\* The level taken as the ascending distance from b to a.
inversion_by_pair_difference(set, inversion_pair, overflow_checks) ==
    LET a == inversion_pair[1]
        b == inversion_pair[2]
    IN  inversion_by(set, U32Of(get_interval_between(to_u32(b), to_u32(a))),
                     overflow_checks)

\* inversion::by_pair: level = (a.to_u32() + b.to_u32()).rem_euclid(12).
inversion_by_pair(set, inversion_pair, overflow_checks) ==
    LET a   == inversion_pair[1]
        b   == inversion_pair[2]
        sum == U32Add(U32Of(to_u32(a)), U32Of(to_u32(b)))
    IN  IF overflow_checks /\ sum.overflow
        THEN Panicked
        ELSE inversion_by(set, U32Of(U32RemEuclid12(sum.val)), overflow_checks)

----------------------------------------------------------------------------
(* The caller: constructs a set, then applies one of the library's         *)
(* operations to it.  The operations are pure: each state after a call     *)
(* holds the call's argument and what it returned.                         *)

\* Spellings in the order a caller's palette grows: naturals and flats that
\* give tied spans, then spellings whose declaration order is not their
\* pitch order, then the rest in declaration order.
InputPalette ==
    << "C", "E", "G", "Af", "Dss", "Eff", "D", "F", "Bs",
       "Cf", "Cs", "Css", "Dff", "Df", "Ds", "Ef", "Es",
       "Ff", "Fs", "Fss", "Gff", "Gf", "Gs", "Gss",
       "Aff", "A", "As", "Ass", "Bff", "Bf", "B" >>

Spellings ==
    { InputPalette[i] : i \in 1..(IF NumSpellings < Len(InputPalette)
                                  THEN NumSpellings ELSE Len(InputPalette)) }

\* set![...] / PitchClassSet::new: any list, duplicates allowed.
InputSets == UNION { [1..n -> Spellings] : n \in 0..MaxLen }

\* Levels a caller passes: the small ones, and the corners of the u32 range
\* (u32::MAX, u32::MAX - 11, 2^31 - 1, 2^31, 2^31 + 11).
SmallLevels == { U32Of(n) : n \in 0..MaxLevel }
LargeLevels == { U32(65535, 65535), U32(65535, 65524),
                 U32(32767, 65535), U32(32768, 0), U32(32768, 11) }
Levels == SmallLevels \cup LargeLevels

\* Integers a caller converts to a pitch class: low limbs at both ends of
\* their range under high limbs 0, 1, 2^15 - 1, 2^15 and 2^16 - 1.
U32Inputs ==
    { U32(h, l) : h \in {0, 1, 32767, 32768, 65535},
                  l \in (0..MaxLevel) \cup (65524..65535) }

VARIABLES
    set,        \* the PitchClassSet the caller holds
    op,         \* the operation last applied to it
    level,      \* the level passed to it (a u32), 0 when it takes none
    out,        \* the PitchClassSet it returned
    prime,      \* the Vec<u32> it returned
    panicked,   \* whether it panicked instead of returning
    pair,       \* the inversion pair passed to it, << >> when it takes none
    pitch       \* the PitchClass it returned, "none" when it returns none

vars == << set, op, level, out, prime, panicked, pair, pitch >>

Init ==
    /\ set \in InputSets
    /\ op = "new"
    /\ level = U32Of(0)
    /\ out = << >>
    /\ prime = << >>
    /\ panicked = FALSE
    /\ pair = << >>
    /\ pitch = "none"

\* to_normal_form(&set)
ToNormalForm ==
    LET r == normal_form_from(set)
    IN  /\ op = "new"
        /\ op' = "to_normal_form"
        /\ level' = U32Of(0)
        /\ out' = r.val
        /\ prime' = << >>
        /\ panicked' = ~r.ok
        /\ UNCHANGED << set, pair, pitch >>

\* to_prime_form(&set)
ToPrimeForm ==
    LET r == prime_form_from(set)
    IN  /\ op = "new"
        /\ op' = "to_prime_form"
        /\ level' = U32Of(0)
        /\ out' = << >>
        /\ prime' = r.val
        /\ panicked' = ~r.ok
        /\ UNCHANGED << set, pair, pitch >>

\* transpose(&set, level)
Transpose(n) ==
    \E overflow_checks \in BOOLEAN :
        LET r == transposition_by(set, n, overflow_checks)
        IN  /\ op = "new"
            /\ op' = "transpose"
            /\ level' = n
            /\ out' = r.val
            /\ prime' = << >>
            /\ panicked' = ~r.ok
            /\ UNCHANGED << set, pair, pitch >>

\* invert(&set, level)
Invert(n) ==
    \E overflow_checks \in BOOLEAN :
        LET r == inversion_by(set, n, overflow_checks)
        IN  /\ op = "new"
            /\ op' = "invert"
            /\ level' = n
            /\ out' = r.val
            /\ prime' = << >>
            /\ panicked' = ~r.ok
            /\ UNCHANGED << set, pair, pitch >>

\* invert_by_pair(&set, (a, b))
InvertByPair(a, b) ==
    \E overflow_checks \in BOOLEAN :
        LET r == inversion_by_pair(set, << a, b >>, overflow_checks)
        IN  /\ op = "new"
            /\ op' = "invert_by_pair"
            /\ level' = U32Of(0)
            /\ pair' = << a, b >>
            /\ out' = r.val
            /\ prime' = << >>
            /\ panicked' = ~r.ok
            /\ UNCHANGED << set, pitch >>

\* PitchClass::from(k), k.into(): the conversion takes no set, and is taken
\* where none has been listed.
FromU32(k) ==
    LET r == from_u32(k)
    IN  /\ op = "new"
        /\ set = << >>
        /\ op' = "from_u32"
        /\ level' = k
        /\ pitch' = r
        /\ panicked' = (r = "panic")
        /\ UNCHANGED << set, out, prime, pair >>

Next ==
    \/ ToNormalForm
    \/ ToPrimeForm
    \/ \E n \in Levels : Transpose(n)
    \/ \E n \in Levels : Invert(n)
    \/ \E a \in Spellings, b \in Spellings : InvertByPair(a, b)
    \/ \E k \in U32Inputs : FromU32(k)

Spec == Init /\ [][Next]_vars

----------------------------------------------------------------------------
(* Vocabulary of the properties, stated apart from the operations above. *)

\* The canonical spelling of each pitch integer 0..11.
Canonical ==
    << "C", "Cs", "D", "Ef", "E", "F", "Fs", "G", "Af", "A", "Bf", "B" >>

CanonicalOf(p) == Canonical[p + 1]

\* A level's residue mod 12, and the level in 0..11 congruent to its negative.
LevelMod12(n) == (n.hi * 4 + n.lo) % 12
NegatedLevel(n) == U32(0, (12 - LevelMod12(n)) % 12)
IsLevel0to11(n) == n.hi = 0 /\ n.lo <= 11

\* Ascending circular distance, first to last.
SpanOf(ints) == (ints[Len(ints)] - ints[1]) % 12

RotationOf(s, r) == [ j \in 1..Len(s) |-> s[((j - 1 + r) % Len(s)) + 1] ]

IsAscending(s) == \A i \in 1..(Len(s) - 1) : s[i] <= s[i + 1]

IsPermutationOf(s, t) ==
    /\ Len(s) = Len(t)
    /\ \A v \in 0..11 :
         Cardinality({ i \in 1..Len(s) : s[i] = v })
           = Cardinality({ i \in 1..Len(t) : t[i] = v })

\* The pitch integers of a set in ascending order.
PitchSorted(pcs) ==
    CHOOSE s \in [1..Len(pcs) -> 0..11] :
        IsAscending(s) /\ IsPermutationOf(s, Integers_of(pcs))

PrefixSums(s) ==
    [ i \in 1..Len(s) |->
        LET RECURSIVE sum(_)
            sum(k) == IF k = 0 THEN 0 ELSE s[k] + sum(k - 1)
        IN  sum(i) ]

StepsOf(ints) ==
    [ i \in 1..(Len(ints) - 1) |-> (ints[i + 1] - ints[i]) % 12 ]

\* The two keys of an ordering: forward and reversed interval sums.
KeysOf(ints) ==
    { << PrefixSums(StepsOf(ints)), FALSE >>,
      << PrefixSums(Reverse(StepsOf(ints))), TRUE >> }

\* Lexicographic order on sequences of equal length, then false before true.
SeqLeq(a, b) ==
    \/ a = b
    \/ \E i \in 1..Len(a) :
         /\ a[i] < b[i]
         /\ \A j \in 1..(i - 1) : a[j] = b[j]

KeyLeq(k1, k2) ==
    \/ k1[1] # k2[1] /\ SeqLeq(k1[1], k2[1])
    \/ k1[1] = k2[1] /\ (k1[2] => k2[2])

\* The rotations of the sorted set that share the least span.
TiedCandidates(s) ==
    LET rots == { create_rotation(sort_unstable(s), i) : i \in 1..Len(s) }
    IN  { c \in rots :
            \A d \in rots : SpanOf(Integers_of(c)) <= SpanOf(Integers_of(d)) }

----------------------------------------------------------------------------
(* Normal form *)

\* C1: for every non-empty set, to_normal_form returns a cyclic rotation of
\* the set sorted ascending by pitch integer, and its span is the least span
\* over all rotations of that sorted sequence.
C1_NormalFormIsLeastSpanRotation ==
    (op = "to_normal_form" /\ set # << >>) =>
        LET sorted == PitchSorted(set)
            rots   == { RotationOf(sorted, r) : r \in 1..Len(set) }
        IN  /\ ~panicked
            /\ Integers_of(out) \in rots
            /\ \A r \in rots : SpanOf(Integers_of(out)) <= SpanOf(r)

\* C2: when two or more rotations share the least span, to_normal_form
\* returns one of them that owns the least (interval sums, is-reversed) key
\* among the forward and reversed keys of all the tied rotations.
C2_ReturnsOwnerOfLeastKey ==
    (op = "to_normal_form" /\ Cardinality(TiedCandidates(set)) >= 2) =>
        /\ ~panicked
        /\ out \in TiedCandidates(set)
        /\ \E k \in KeysOf(Integers_of(out)) :
             \A c \in TiedCandidates(set) :
               \A k2 \in KeysOf(Integers_of(c)) : KeyLeq(k, k2)

\* A tie the sort decides: the returned rotation is not the first tied one
\* in rotation order, and the tied rotations differ in their keys.
C2_Witness ==
    /\ op = "to_normal_form"
    /\ Cardinality(TiedCandidates(set)) >= 2
    /\ \E c \in TiedCandidates(set) :
         KeysOf(Integers_of(c)) # KeysOf(Integers_of(out))
    /\ LET rots == rotations_of(sort_unstable(set))
       IN  out # rotations_with_min_span(rots)[1].set

\* C3: normal form is idempotent: the normal form of a normal form is itself.
C3_NormalFormIdempotent ==
    (op = "to_normal_form" /\ ~panicked) =>
        normal_form_from(out) = Ok(out)

\* A normal form that reorders a three-element set.
C3_Witness ==
    /\ op = "to_normal_form"
    /\ ~panicked
    /\ Len(set) >= 3
    /\ out # set
    /\ out # sort_unstable(set)

----------------------------------------------------------------------------
(* Prime form *)

\* C4: prime form identifies the transposition / inversion class: for every
\* non-empty set and every level 0..11, the prime form of the transposed set
\* and of the inverted set is the prime form of the set.
C4_PrimeFormInvariantUnderTnIn ==
    (op \in {"transpose", "invert"} /\ IsLevel0to11(level) /\ set # << >>) =>
        /\ ~panicked
        /\ prime_form_from(out) = prime_form_from(set)

\* C5: for every non-empty set, to_prime_form returns as many elements as the
\* set has, the first of them 0.
C5_PrimeFormStartsAtZeroSameLength ==
    (op = "to_prime_form" /\ set # << >>) =>
        /\ ~panicked
        /\ Len(prime) = Len(set)
        /\ prime[1] = 0

\* A prime form of a three-element set whose normal form does not start on C.
C5_Witness ==
    /\ op = "to_prime_form"
    /\ ~panicked
    /\ Len(set) = 3
    /\ Cardinality({ to_u32(set[i]) : i \in 1..3 }) = 3
    /\ Len(prime) = 3
    /\ prime[1] = 0
    /\ prime[2] > 0
    /\ to_u32(normal_form_from(set).val[1]) # 0

----------------------------------------------------------------------------
(* Boundary sizes *)

\* C6: for every set of size 0 or 1, to_normal_form returns without
\* panicking, and returns the set itself.
C6_TrivialSetsPassThrough ==
    (op = "to_normal_form" /\ Len(set) <= 1) =>
        /\ ~panicked
        /\ out = set

----------------------------------------------------------------------------
(* Transposition *)

\* C7: transposing by n and then by the level congruent to -n mod 12 returns
\* a set equal to the original, for every set (any spellings) and every
\* level; in particular transposing by 0 returns the set.
C7_TransposeInvertible ==
    (op = "transpose") =>
        /\ ~panicked
        /\ \A overflow_checks \in BOOLEAN :
             transposition_by(out, NegatedLevel(level), overflow_checks) = Ok(set)
        /\ (level = U32(0, 0) => out = set)

\* C8: for every set and every u32 level, transpose does not fail and returns
\* a set of the same length whose i-th element is the canonical pitch class
\* of (pitch integer of set[i] + level) mod 12.
C8_TransposeElementwiseNoOverflow ==
    (op = "transpose") =>
        /\ ~panicked
        /\ Len(out) = Len(set)
        /\ \A i \in 1..Len(set) :
             out[i] = CanonicalOf((to_u32(set[i]) + LevelMod12(level)) % 12)

----------------------------------------------------------------------------
(* Inversion *)

\* C9: for every set of length n and every u32 level, invert returns a set
\* of length n whose i-th element is the canonical pitch class of
\* (level - pitch integer of set[n-1-i]) mod 12, floored: reflected values
\* in reverse order.
C9_InvertReflectsAndReverses ==
    (op = "invert") =>
        /\ ~panicked
        /\ Len(out) = Len(set)
        /\ \A i \in 1..Len(set) :
             out[i] = CanonicalOf(
                 (LevelMod12(level) - to_u32(set[Len(set) + 1 - i])) % 12)

\* C10: for every set and every level 0..11, inverting twice at the same
\* level gives back the content of the set: the same multiset of pitch
\* integers.
C10_InvertTwiceRestoresContent ==
    (op = "invert" /\ IsLevel0to11(level)) =>
        /\ ~panicked
        /\ \A overflow_checks \in BOOLEAN :
             LET twice == inversion_by(out, level, overflow_checks)
             IN  /\ twice.ok
                 /\ IsPermutationOf(Integers_of(twice.val), Integers_of(set))

\* An inversion that moved every pitch of a three-element set with three
\* different pitches, at a level other than 0.
C10_Witness ==
    /\ op = "invert"
    /\ IsLevel0to11(level)
    /\ level.lo > 0
    /\ ~panicked
    /\ Len(set) = 3
    /\ Cardinality({ to_u32(set[i]) : i \in 1..3 }) = 3
    /\ \A i \in 1..3 : to_u32(out[i]) # to_u32(set[i])
    /\ ~IsPermutationOf(Integers_of(out), Integers_of(set))

----------------------------------------------------------------------------
(* Inversion by pair *)

\* C11: invert_by_pair(S, (a, b)) equals invert(S, (a + b) mod 12), and the
\* inversion maps the pair onto each other: every element with a's pitch
\* integer is sent to b's pitch integer, and every element with b's to a's.
C11_InvertByPairIsInvertAtSum ==
    (op = "invert_by_pair") =>
        LET a == to_u32(pair[1])
            b == to_u32(pair[2])
            n == Len(set)
        IN  /\ ~panicked
            /\ \A overflow_checks \in BOOLEAN :
                 inversion_by(set, U32(0, (a + b) % 12), overflow_checks) = Ok(out)
            /\ Len(out) = n
            /\ \A i \in 1..n :
                 /\ to_u32(set[i]) = a => to_u32(out[n + 1 - i]) = b
                 /\ to_u32(set[i]) = b => to_u32(out[n + 1 - i]) = a

\* A pair of two different pitches whose sum passes 12, on a set that holds
\* both of them and a third pitch.
C11_Witness ==
    /\ op = "invert_by_pair"
    /\ ~panicked
    /\ Len(set) = 3
    /\ to_u32(pair[1]) # to_u32(pair[2])
    /\ to_u32(pair[1]) + to_u32(pair[2]) > 12
    /\ \E i, j, k \in 1..3 :
         /\ to_u32(set[i]) = to_u32(pair[1])
         /\ to_u32(set[j]) = to_u32(pair[2])
         /\ to_u32(set[k]) \notin { to_u32(pair[1]), to_u32(pair[2]) }

----------------------------------------------------------------------------
(* Integer to pitch class *)

\* k mod 12 for a u32 k = hi * 65536 + lo, reduced limb by limb.
U32Mod12(k) == ((k.hi % 12) * (65536 % 12) + (k.lo % 12)) % 12

\* C12: for every u32 k, converting k to a PitchClass does not reach the
\* panic arm, the result is one of the 12 canonical spellings, and its pitch
\* integer is k mod 12.
C12_FromIntegerTotalRoundTrip ==
    (op = "from_u32") =>
        /\ ~panicked
        /\ pitch \in { Canonical[i] : i \in 1..12 }
        /\ to_u32(pitch) = U32Mod12(level)

\* A conversion of an integer above 2^31 whose residue is 11.
C12_Witness ==
    /\ op = "from_u32"
    /\ ~panicked
    /\ level.hi >= 32768
    /\ pitch = "B"

----------------------------------------------------------------------------
(* Order of the input *)

\* Every listing of the same elements in another order.
PermutationsOf(s) ==
    { [ i \in 1..Len(s) |-> s[p[i]] ] :
        p \in { q \in [1..Len(s) -> 1..Len(s)] :
                  \A i, j \in 1..Len(s) : q[i] = q[j] => i = j } }

\* C13: normal form and prime form do not depend on the order the input is
\* listed in: every permutation of a non-empty set has the same normal form
\* and the same prime form.
C13_FormsIgnoreInputOrder ==
    /\ (op = "to_normal_form" /\ set # << >>) =>
         /\ ~panicked
         /\ \A P \in PermutationsOf(set) : normal_form_from(P) = Ok(out)
    /\ (op = "to_prime_form" /\ set # << >>) =>
         /\ ~panicked
         /\ \A P \in PermutationsOf(set) : prime_form_from(P) = Ok(prime)

\* A set of three different elements listed in descending order: none of
\* its other listings is the one given, and the normal form reorders it.
C13_Witness ==
    /\ op = "to_normal_form"
    /\ ~panicked
    /\ Len(set) = 3
    /\ Cardinality(PermutationsOf(set)) = 6
    /\ set = Reverse(sort_unstable(set))
    /\ out # set

----------------------------------------------------------------------------
(* Range of the prime form *)

\* C14: for every non-empty set, to_prime_form returns a non-decreasing
\* sequence whose elements all lie in 0..11, the last of them the total span
\* of the normal form.
C14_PrimeFormAscendingBelow12 ==
    (op = "to_prime_form" /\ set # << >>) =>
        /\ ~panicked
        /\ IsAscending(prime)
        /\ \A i \in 1..Len(prime) : prime[i] \in 0..11
        /\ prime[Len(prime)] = SpanOf(Integers_of(normal_form_from(set).val))

====
